---------------------------- MODULE Spec2Model ----------------------------
(***************************************************************************)
(* A model of TF_2_DOC (src/main.go): the Markdown table-of-contents       *)
(* scanner BuildMarkdownToc, the table renderer MarkdownTable, the         *)
(* Get*Table extraction functions and the action dispatch of main.         *)
(*                                                                         *)
(* A Go string is modelled as a sequence of atoms.  An atom is a one       *)
(* character string ("#", " ", "a", "\n", ...) wherever the code looks     *)
(* inside the text; the fixed literals of the program that the code only   *)
(* copies (table headings, the TOC banner, format pieces) are written as   *)
(* one atom each.                                                          *)
(***************************************************************************)
EXTENDS Integers, Sequences, FiniteSets, TLC

VARIABLES
    \* ---- BuildMarkdownToc(d, depth, skipHeaders) ----
    doc,            \* the lines bufio.Scanner has delivered so far, in order
    depth,          \* parameter depth (maxDepth)
    skipHeaders,    \* parameter skipHeaders, decremented by appendToC
    skip0,          \* the value skipHeaders had at the call (history)
    toc,            \* the entries appended to toc after the two banner lines
    seenHeaders,    \* map[string]int of slugs
    previousLine,   \* var previousLine string
    returned,       \* TRUE once the scan loop ended and toc was returned
    \* ---- MarkdownTable(headings, lengths, data) ----
    headings, lengths, data, table, tablePc,
    \* ---- Get*Table(module, baseUrl, modulePath) ----
    items,          \* the collection of the module handed to the function
    order1, order2, \* two iteration orders of that same collection
    getFn,          \* which Get*Table function ran
    data1, data2,   \* the local variable data of the two runs
    out1, out2,     \* the two returned tables
    \* ---- main ----
    pc, opts, env

tocVars   == <<doc, depth, skipHeaders, skip0, toc, seenHeaders, previousLine, returned>>
tableVars == <<headings, lengths, data, table, tablePc>>
getVars   == <<items, order1, order2, getFn, data1, data2, out1, out2>>
mainVars  == <<pc, opts, env>>
vars      == <<tocVars, tableVars, getVars, mainVars>>

(***************************************************************************)
(* Bounds of the model.                                                    *)
(***************************************************************************)
MaxLines == 3
MaxDepth == 2
MaxSkip  == 2
MaxRows  == 2
MaxItems == 3

(***************************************************************************)
(* Strings.                                                                *)
(***************************************************************************)
Max(a, b) == IF a >= b THEN a ELSE b

RECURSIVE Flatten(_)
Flatten(ss) == IF ss = <<>> THEN <<>> ELSE Head(ss) \o Flatten(Tail(ss))

Digits == <<"0", "1", "2", "3", "4", "5", "6", "7", "8", "9">>

\* fmt's %d of a non-negative int
RECURSIVE Itoa(_)
Itoa(n) == IF n < 10 THEN <<Digits[n + 1]>>
           ELSE Itoa(n \div 10) \o <<Digits[(n % 10) + 1]>>

UpperCase == <<"A", "B", "C", "D", "E", "F", "G", "H", "I", "J", "K", "L", "M",
               "N", "O", "P", "Q", "R", "S", "T", "U", "V", "W", "X", "Y", "Z">>
LowerCase == <<"a", "b", "c", "d", "e", "f", "g", "h", "i", "j", "k", "l", "m",
               "n", "o", "p", "q", "r", "s", "t", "u", "v", "w", "x", "y", "z">>

\* strings.ToLower on one character
ToLower(c) == IF \E i \in 1..26 : UpperCase[i] = c
              THEN LowerCase[CHOOSE i \in 1..26 : UpperCase[i] = c]
              ELSE c

\* (the backquote, which a TLA+ string cannot hold, is the atom "backquote")
droppedChars == {"\"", "'", "backquote", ".", "!", ",", "~", "&", "%", "^", "*", "#",
                 "@", "|", "(", ")", "{", "}", "[", "]"}

slugify(s) ==
    LET lower == [i \in 1..Len(s) |-> ToLower(s[i])]
        kept  == SelectSeq(lower, LAMBDA c : c \notin droppedChars)
    IN  [i \in 1..Len(kept) |-> IF kept[i] = " " THEN "-" ELSE kept[i]]

(***************************************************************************)
(* The three heading patterns.                                             *)
(***************************************************************************)
RECURSIVE LeadingRun(_, _)
LeadingRun(line, c) ==
    IF line # <<>> /\ Head(line) = c THEN 1 + LeadingRun(Tail(line), c) ELSE 0

\* rHashHeader = "^(?P<indent>#+) ?(?P<title>.+)$": the greedy #+ takes the whole
\* run of '#', the optional space is taken when text follows it, and .+ needs one
\* character; on a line made of '#' only the run gives its last '#' back to .+
HashHeaderMatch(line) ==
    LET k    == LeadingRun(line, "#")
        rest == SubSeq(line, k + 1, Len(line))
    IN  IF k = 0 THEN [ok |-> FALSE, indent |-> <<>>, title |-> <<>>]
        ELSE IF rest # <<>>
        THEN [ok     |-> TRUE,
              indent |-> SubSeq(line, 1, k),
              title  |-> IF Head(rest) = " " /\ Len(rest) >= 2 THEN Tail(rest) ELSE rest]
        ELSE IF k >= 2
        THEN [ok |-> TRUE, indent |-> SubSeq(line, 1, k - 1), title |-> <<"#">>]
        ELSE [ok |-> FALSE, indent |-> <<>>, title |-> <<>>]

\* rUnderscoreHeader1 = "^=+$"
UnderscoreHeader1Match(line) == line # <<>> /\ LeadingRun(line, "=") = Len(line)

\* rUnderscoreHeader2 = "^\-+$"
UnderscoreHeader2Match(line) == line # <<>> /\ LeadingRun(line, "-") = Len(line)

(***************************************************************************)
(* BuildMarkdownToc.                                                       *)
(***************************************************************************)
Banner == << <<"Table of Contents">>, <<"=================">> >>

\* fmt.Sprintf("%s1. [%s](#%s)", strings.Repeat("   ", indent), title, link)
TocLine(e) ==
    Flatten([i \in 1..e.indent |-> <<"   ">>])
        \o <<"1. [">> \o e.title \o <<"](#">> \o e.link \o <<")">>

\* the []string BuildMarkdownToc returns
TocStrings == Banner \o [i \in 1..Len(toc) |-> TocLine(toc[i])]

\* fmt.Sprintf("%s-%d", link, seenHeaders[link]-1), seenHeaders[link] already incremented
SuffixedLink_OffByOne(link, count) == link \o <<"-">> \o Itoa(count)

SuffixedLink(link, count) == link \o <<"-">> \o Itoa(count - 1)

\* The closure appendToC, called while line number Len(doc)+1 is scanned: the
\* new values of toc, seenHeaders and skipHeaders.  An entry keeps the
\* number of the line that produced it (history).
AppendToC_SkipRegisters(title, indent) ==
    LET link == slugify(title)
        seen == [s \in DOMAIN seenHeaders \cup {link} |->
                    IF s = link
                    THEN (IF link \in DOMAIN seenHeaders THEN seenHeaders[link] + 1 ELSE 1)
                    ELSE seenHeaders[s]]
    IN  IF skipHeaders > 0
        THEN [toc |-> toc, seenHeaders |-> seen, skipHeaders |-> skipHeaders - 1]
        ELSE [toc |-> Append(toc,
                        [indent |-> indent, title |-> title, line |-> Len(doc) + 1,
                         link |-> IF link \in DOMAIN seenHeaders
                                  THEN SuffixedLink(link, seen[link]) ELSE link]),
              seenHeaders |-> seen,
              skipHeaders |-> skipHeaders]

AppendToC(title, indent) ==
    LET link == slugify(title)
    IN  IF skipHeaders > 0
        THEN [toc |-> toc, seenHeaders |-> seenHeaders, skipHeaders |-> skipHeaders - 1]
        ELSE IF link \in DOMAIN seenHeaders
        THEN [toc |-> Append(toc,
                        [indent |-> indent, title |-> title, line |-> Len(doc) + 1,
                         link   |-> SuffixedLink(link, seenHeaders[link] + 1)]),
              seenHeaders |-> [seenHeaders EXCEPT ![link] = @ + 1],
              skipHeaders |-> skipHeaders]
        ELSE [toc |-> Append(toc,
                        [indent |-> indent, title |-> title, line |-> Len(doc) + 1,
                         link   |-> link]),
              seenHeaders |-> [s \in DOMAIN seenHeaders \cup {link} |->
                                  IF s = link THEN 1 ELSE seenHeaders[s]],
              skipHeaders |-> skipHeaders]

\* The lines the scanner may deliver next.
LineSet == {
    <<>>,
    <<"A">>,
    <<"#", " ", "A">>,
    <<"#", " ", "a", ".">>,
    <<"#", " ", "A", "-", "1">>,
    <<"#", "#", " ", "B">>,
    <<"#", "#", "#", " ", "C">>,
    <<"#", "#">>,
    <<"=", "=">>,
    <<"-", "-">> }

Scanning == ~returned /\ Len(doc) < MaxLines

Emit(r) ==
    /\ toc' = r.toc
    /\ seenHeaders' = r.seenHeaders
    /\ skipHeaders' = r.skipHeaders

\* case rHashHeader.Match(s.Bytes())
ScanHashHeader(line) ==
    /\ Scanning
    /\ HashHeaderMatch(line).ok
    /\ doc' = Append(doc, line)
    /\ LET m == HashHeaderMatch(line)
       IN  IF depth > 0 /\ Len(m.indent) > depth
           THEN UNCHANGED <<toc, seenHeaders, skipHeaders, previousLine>>   \* continue
           ELSE /\ Emit(AppendToC(m.title, Len(m.indent) - 1))
                /\ previousLine' = line
    /\ UNCHANGED <<depth, skip0, returned, tableVars, getVars, mainVars>>

\* case rUnderscoreHeader1.Match(s.Bytes())
ScanUnderscoreHeader1(line) ==
    /\ Scanning
    /\ ~HashHeaderMatch(line).ok
    /\ UnderscoreHeader1Match(line)
    /\ doc' = Append(doc, line)
    /\ Emit(AppendToC(previousLine, 0))
    /\ previousLine' = line
    /\ UNCHANGED <<depth, skip0, returned, tableVars, getVars, mainVars>>

\* case rUnderscoreHeader2.Match(s.Bytes())
ScanUnderscoreHeader2(line) ==
    /\ Scanning
    /\ ~HashHeaderMatch(line).ok
    /\ ~UnderscoreHeader1Match(line)
    /\ UnderscoreHeader2Match(line)
    /\ doc' = Append(doc, line)
    /\ IF depth > 0 /\ depth < 2
       THEN UNCHANGED <<toc, seenHeaders, skipHeaders, previousLine>>       \* continue
       ELSE /\ Emit(AppendToC(previousLine, 1))
            /\ previousLine' = line
    /\ UNCHANGED <<depth, skip0, returned, tableVars, getVars, mainVars>>

\* no case of the switch matches
ScanOtherLine(line) ==
    /\ Scanning
    /\ ~HashHeaderMatch(line).ok
    /\ ~UnderscoreHeader1Match(line)
    /\ ~UnderscoreHeader2Match(line)
    /\ doc' = Append(doc, line)
    /\ previousLine' = line
    /\ UNCHANGED <<toc, seenHeaders, skipHeaders>>
    /\ UNCHANGED <<depth, skip0, returned, tableVars, getVars, mainVars>>

\* s.Scan() returns false at the end of the input; return toc, nil
ReturnToc ==
    /\ ~returned
    /\ returned' = TRUE
    /\ UNCHANGED <<doc, depth, skipHeaders, skip0, toc, seenHeaders, previousLine>>
    /\ UNCHANGED <<tableVars, getVars, mainVars>>

(***************************************************************************)
(* Values of the variables of the parts a specification does not run.      *)
(***************************************************************************)
IdleToc ==
    /\ doc = <<>> /\ depth = 0 /\ skipHeaders = 0 /\ skip0 = 0 /\ toc = <<>>
    /\ seenHeaders = <<>> /\ previousLine = <<>> /\ returned = TRUE

IdleTable ==
    /\ headings = <<>> /\ lengths = <<>> /\ data = <<>> /\ table = <<>>
    /\ tablePc = "idle"

IdleGet ==
    /\ items = {} /\ order1 = <<>> /\ order2 = <<>> /\ getFn = "none"
    /\ data1 = <<>> /\ data2 = <<>> /\ out1 = <<>> /\ out2 = <<>>

IdleMain ==
    /\ pc = "idle" /\ opts = <<>> /\ env = <<>>

(***************************************************************************)
(* Specification of one BuildMarkdownToc call: any depth and skipHeaders,  *)
(* any document of at most MaxLines lines of LineSet.                      *)
(***************************************************************************)
Init ==
    /\ doc = <<>>
    /\ depth \in 0..MaxDepth
    /\ skipHeaders \in 0..MaxSkip
    /\ skip0 = skipHeaders
    /\ toc = <<>>
    /\ seenHeaders = <<>>           \* make(map[string]int)
    /\ previousLine = <<>>          \* var previousLine string
    /\ returned = FALSE
    /\ IdleTable /\ IdleGet /\ IdleMain

Next ==
    \/ \E line \in LineSet : ScanHashHeader(line)
    \/ \E line \in LineSet : ScanUnderscoreHeader1(line)
    \/ \E line \in LineSet : ScanUnderscoreHeader2(line)
    \/ \E line \in LineSet : ScanOtherLine(line)
    \/ ReturnToc

Spec == Init /\ [][Next]_vars

(***************************************************************************)
(* Properties of BuildMarkdownToc.                                         *)
(***************************************************************************)
Entries == 1..Len(toc)

\* the slug of an entry's title before de-duplication
BaseSlug(i) == slugify(toc[i].title)

\* the line of the document that produced entry i
SourceLine(i) == doc[toc[i].line]

FromUnderline(i) ==
    /\ ~HashHeaderMatch(SourceLine(i)).ok
    /\ UnderscoreHeader1Match(SourceLine(i)) \/ UnderscoreHeader2Match(SourceLine(i))

\* C1: within one call the link slugs of the emitted entries are pairwise
\* distinct, whatever the titles, depth and skipHeaders.
C1_SlugsPairwiseDistinct ==
    \A i, j \in Entries : i # j => toc[i].link # toc[j].link

\* C2: the first emitted heading with base slug s has link s, and the j-th
\* emitted heading with that base slug (j >= 2) has link s-(j-1), in source order.
C2_CollisionNumbering ==
    \A i \in Entries :
        LET earlier == Cardinality({j \in 1..(i - 1) : BaseSlug(j) = BaseSlug(i)})
        IN  toc[i].link = IF earlier = 0 THEN BaseSlug(i)
                          ELSE BaseSlug(i) \o <<"-">> \o Itoa(earlier)

C2_Witness ==
    /\ Len(toc) = 3
    /\ toc[1].title = <<"A">> /\ toc[2].title = <<"A">> /\ toc[3].title = <<"A">>
    /\ toc[1].link = <<"a">>
    /\ toc[2].link = <<"a", "-", "1">>
    /\ toc[3].link = <<"a", "-", "2">>

\* whether the scanner takes the line for a heading and the depth filter lets it through
PassesDepthFilter(line) ==
    IF HashHeaderMatch(line).ok
    THEN ~(depth > 0 /\ Len(HashHeaderMatch(line).indent) > depth)
    ELSE IF UnderscoreHeader1Match(line) THEN TRUE
    ELSE IF UnderscoreHeader2Match(line) THEN ~(depth > 0 /\ depth < 2)
    ELSE FALSE

\* the numbers of the scanned lines that are headings passing the depth filter
PassingLines ==
    SelectSeq([i \in 1..Len(doc) |-> i], LAMBDA i : PassesDepthFilter(doc[i]))

\* C3: with skipHeaders = N exactly the first N headings that pass the depth
\* filter are dropped; a dropped heading changes neither toc nor the slug
\* registry (the registry counts the emitted headings only, so a heading with
\* the title of a dropped one gets the unsuffixed slug); headings excluded by
\* the depth filter do not decrement the skip counter.
C3_SkipDropsFirstN ==
    /\ skipHeaders = Max(skip0 - Len(PassingLines), 0)
    /\ Len(toc) = Max(Len(PassingLines) - skip0, 0)
    /\ \A i \in Entries : toc[i].line = PassingLines[skip0 + i]
    /\ DOMAIN seenHeaders = {BaseSlug(i) : i \in Entries}
    /\ \A s \in DOMAIN seenHeaders :
           seenHeaders[s] = Cardinality({i \in Entries : BaseSlug(i) = s})
    /\ \A i \in Entries :
           (\A j \in 1..(i - 1) : BaseSlug(j) # BaseSlug(i)) => toc[i].link = BaseSlug(i)

C3_Witness ==
    /\ depth = 2 /\ skip0 = 1 /\ skipHeaders = 0
    /\ doc = << <<"#", "#", "#", " ", "C">>, <<"#", " ", "A">>, <<"#", " ", "A">> >>
    /\ Len(toc) = 1
    /\ toc[1].line = 3
    /\ toc[1].link = <<"a">>

\* C4: with depth > 0 no entry comes from an ATX heading with more than depth
\* leading '#', and none from a '-' underline when depth < 2; and the scan goes
\* on after an excluded heading: with nothing skipped, every ATX heading with at
\* most depth leading '#' (any ATX heading when depth = 0) has its entry.
C4_DepthFilter ==
    /\ depth > 0 =>
         \A i \in Entries :
            /\ HashHeaderMatch(SourceLine(i)).ok => LeadingRun(SourceLine(i), "#") <= depth
            /\ (FromUnderline(i) /\ UnderscoreHeader2Match(SourceLine(i))) => depth >= 2
    /\ skip0 = 0 =>
         \A n \in 1..Len(doc) :
            (HashHeaderMatch(doc[n]).ok /\ (depth = 0 \/ LeadingRun(doc[n], "#") <= depth))
                => \E i \in Entries : toc[i].line = n

\* C5: an '=' or '-' underline produces an entry only when it immediately
\* follows a non-blank line, so every Setext entry has a non-empty title.
C5_SetextFollowsNonBlank ==
    \A i \in Entries :
        FromUnderline(i) =>
            /\ toc[i].line > 1
            /\ doc[toc[i].line - 1] # <<>>
            /\ toc[i].title # <<>>

\* C10: after any line is processed previousLine is that line's text, also
\* when the line was excluded by the depth filter; hence the title of every
\* Setext entry is the line immediately before its underline.
C10_PreviousLineTracked ==
    /\ doc # <<>> => previousLine = doc[Len(doc)]
    /\ \A i \in Entries :
          (FromUnderline(i) /\ toc[i].line > 1) => toc[i].title = doc[toc[i].line - 1]

(***************************************************************************)
(* MarkdownTable.                                                          *)
(***************************************************************************)
\* regexp `\r?\n`, ReplaceAllString(cellText, "<br>")
RECURSIVE MarkdownTableCellEscape_OnlyCRLF(_)
MarkdownTableCellEscape_OnlyCRLF(cellText) ==
    IF cellText = <<>> THEN <<>>
    ELSE IF Head(cellText) = "\r" /\ Len(cellText) >= 2 /\ cellText[2] = "\n"
    THEN <<"<br>">> \o MarkdownTableCellEscape_OnlyCRLF(Tail(Tail(cellText)))
    ELSE <<Head(cellText)>> \o MarkdownTableCellEscape_OnlyCRLF(Tail(cellText))

RECURSIVE MarkdownTableCellEscape(_)
MarkdownTableCellEscape(cellText) ==
    IF cellText = <<>> THEN <<>>
    ELSE IF Head(cellText) = "\n"
    THEN <<"<br>">> \o MarkdownTableCellEscape(Tail(cellText))
    ELSE IF Head(cellText) = "\r" /\ Len(cellText) >= 2 /\ cellText[2] = "\n"
    THEN <<"<br>">> \o MarkdownTableCellEscape(Tail(Tail(cellText)))
    ELSE <<Head(cellText)>> \o MarkdownTableCellEscape(Tail(cellText))

\* fmt.Sprintf(" %s |", s)
Cell(s) == <<" ">> \o s \o <<" ", "|">>

MarkdownTable(hs, ls, rows) ==
    <<"|">> \o Flatten([i \in 1..Len(hs) |-> Cell(hs[i])])
        \o <<"\n", "|">> \o Flatten([i \in 1..Len(ls) |-> Cell(ls[i])])
        \o Flatten([r \in 1..Len(rows) |->
              <<"\n", "|">>
                 \o Flatten([c \in 1..Len(rows[r]) |->
                        Cell(MarkdownTableCellEscape(rows[r][c]))])])

\* The headings and rules the Get*Table functions pass, and the pair of
\* testable property 6 of the specification.
HeaderSet == {
    [headings |-> << <<"Variable">>, <<"Type">>, <<"Description">>, <<"Code Position">> >>,
     lengths  |-> << <<"----">>, <<"------">>, <<"--------">>, <<"------">> >>],
    [headings |-> << <<"Output name">>, <<"Description">>, <<"Code Position">> >>,
     lengths  |-> << <<"----">>, <<"--------">>, <<"------">> >>],
    [headings |-> << <<"Variable">>, <<"Type">> >>,
     lengths  |-> << <<"----">>, <<"------">> >>] }

\* The rows a caller may pass: plain cells, cells with "\n" and "\r\n", a
\* bare "\r", a '|', an empty cell and a row without cells.
RowSet == {
    << <<"x">>, <<"s", "t", "r">> >>,
    << <<"a", "\n", "b">>, <<>> >>,
    << <<"a", "\r", "\n", "b">>, <<"\n", "\n">> >>,
    << <<"\r">>, <<"|">> >>,
    << <<"\r", "\n">> >>,
    <<>> }

RECURSIVE SeqsUpTo(_, _)
SeqsUpTo(S, n) ==
    IF n = 0 THEN {<<>>}
    ELSE LET shorter == SeqsUpTo(S, n - 1)
         IN  shorter \cup {Append(q, x) : q \in shorter, x \in S}

InitTable ==
    /\ \E h \in HeaderSet : headings = h.headings /\ lengths = h.lengths
    /\ data \in SeqsUpTo(RowSet, MaxRows)
    /\ table = <<>>
    /\ tablePc = "call"
    /\ IdleToc /\ IdleGet /\ IdleMain

MarkdownTableCall ==
    /\ tablePc = "call"
    /\ table' = MarkdownTable(headings, lengths, data)
    /\ tablePc' = "done"
    /\ UNCHANGED <<headings, lengths, data, tocVars, getVars, mainVars>>

NextTable == MarkdownTableCall

SpecTable == InitTable /\ [][NextTable]_vars

\* the physical lines of a text: its pieces between the "\n"
RECURSIVE SplitLines(_)
SplitLines(text) ==
    IF \A i \in 1..Len(text) : text[i] # "\n" THEN <<text>>
    ELSE LET n == CHOOSE i \in 1..Len(text) :
                      text[i] = "\n" /\ \A j \in 1..(i - 1) : text[j] # "\n"
         IN  <<SubSeq(text, 1, n - 1)>> \o SplitLines(SubSeq(text, n + 1, Len(text)))

Count(s, c) == Cardinality({i \in 1..Len(s) : s[i] = c})

\* the number of "\n" in the cells of a row (each ends one "\n" or "\r\n" sequence)
RowNewlines(row) == Count(Flatten(row), "\n")

\* the number of "\r\n" sequences in the cells of a row
RowCRLFs(row) ==
    LET N(cell) == Cardinality({i \in 1..(Len(cell) - 1) :
                                    cell[i] = "\r" /\ cell[i + 1] = "\n"})
    IN  IF row = <<>> THEN 0
        ELSE LET F[i \in 0..Len(row)] == IF i = 0 THEN 0 ELSE F[i - 1] + N(row[i])
             IN  F[Len(row)]

ByteOrder == <<"-", "0", "1", "2", "3", "4", "5", "6", "7", "8", "9">>
                 \o UpperCase \o <<"_">> \o LowerCase

ByteOf(c) == CHOOSE i \in 1..Len(ByteOrder) : ByteOrder[i] = c

\* Go's < on strings: byte-wise lexicographic
RECURSIVE StringLess(_, _)
StringLess(s, t) ==
    IF t = <<>> THEN FALSE
    ELSE IF s = <<>> THEN TRUE
    ELSE IF Head(s) = Head(t) THEN StringLess(Tail(s), Tail(t))
    ELSE ByteOf(Head(s)) < ByteOf(Head(t))

\* sort.Strings: the strings of S in ascending order
RECURSIVE SortStrings(_)
SortStrings(S) ==
    IF S = {} THEN <<>>
    ELSE LET m == CHOOSE x \in S : \A y \in S \ {x} : StringLess(x, y)
         IN  <<m>> \o SortStrings(S \ {m})

RECURSIVE SortStrings_Descending(_)
SortStrings_Descending(S) ==
    IF S = {} THEN <<>>
    ELSE LET m == CHOOSE x \in S : \A y \in S \ {x} : StringLess(y, x)
         IN  <<m>> \o SortStrings_Descending(S \ {m})

getSortedKeys_Descending(objs) == SortStrings_Descending(DOMAIN objs)

\* the keys of the map, sorted
getSortedKeys(objs) == SortStrings(DOMAIN objs)

\* tfpathbits := strings.Split(item.Pos.Filename, "/"); tfpathbits[len(tfpathbits)-1]
RECURSIVE LastPathBit(_)
LastPathBit(filename) ==
    IF \A i \in 1..Len(filename) : filename[i] # "/" THEN filename
    ELSE LastPathBit(Tail(filename))

baseUrl    == <<"https:", "/", "/", "git.example", "/", "repo">>
modulePath == <<"modules", "/", "vpc">>

\* fmt.Sprintf("[%s: %d](%s/%s/%s#L%d)", tffile, line, baseUrl, modulePath, tffile, line)
Location(item) ==
    LET tffile == LastPathBit(item.Filename)
    IN  <<"[">> \o tffile \o <<": ">> \o Itoa(item.Line) \o <<"](">> \o baseUrl \o <<"/">>
            \o modulePath \o <<"/">> \o tffile \o <<"#L">> \o Itoa(item.Line) \o <<")">>

\* Which item's assignment objs[item.Name] = ... survives the loop
\* "for _, item := range collection" run in the iteration order `order`: a
\* later item overwrites an earlier one of the same name.
LastItems(order) ==
    [k \in {order[i].Name : i \in 1..Len(order)} |->
        LET last == CHOOSE i \in 1..Len(order) :
                       /\ order[i].Name = k
                       /\ \A j \in (i + 1)..Len(order) : order[j].Name # k
        IN  order[last]]

VarObj(item) == [Name |-> item.Name, Type |-> item.Type,
                 Description |-> item.Description, Location |-> Location(item)]
OutputObj(item) == [Name |-> item.Name, Type |-> <<>>,
                    Description |-> item.Description, Location |-> Location(item)]
ResourceObj(item) == [Name |-> item.Name, Type |-> item.Type,
                      Description |-> <<>>, Location |-> Location(item)]
\* a module call's Source is held in Type and its Version in Description
ModuleObj(item) == [Name |-> item.Name, Type |-> item.Type,
                    Description |-> item.Description, Location |-> Location(item)]

\* data after "for _, k := range getSortedKeys(objs) { data = append(data, ...) }"
GetVarsData(order) ==
    LET objs == [k \in DOMAIN LastItems(order) |-> VarObj(LastItems(order)[k])]
        keys == getSortedKeys(objs)
    IN  [i \in 1..Len(keys) |->
            <<objs[keys[i]].Name, objs[keys[i]].Type, objs[keys[i]].Description,
              objs[keys[i]].Location>>]

GetVarsTable(order) ==
    MarkdownTable(<< <<"Variable">>, <<"Type">>, <<"Description">>, <<"Code Position">> >>,
                  << <<"----">>, <<"------">>, <<"--------">>, <<"------">> >>,
                  GetVarsData(order))

GetOutputsData(order) ==
    LET objs == [k \in DOMAIN LastItems(order) |-> OutputObj(LastItems(order)[k])]
        keys == getSortedKeys(objs)
    IN  [i \in 1..Len(keys) |->
            <<objs[keys[i]].Name, objs[keys[i]].Description, objs[keys[i]].Location>>]

GetOutputsTable(order) ==
    MarkdownTable(<< <<"Output name">>, <<"Description">>, <<"Code Position">> >>,
                  << <<"----">>, <<"--------">>, <<"------">> >>,
                  GetOutputsData(order))

GetManagedResourcesData(order) ==
    LET objs == [k \in DOMAIN LastItems(order) |-> ResourceObj(LastItems(order)[k])]
        keys == getSortedKeys(objs)
    IN  [i \in 1..Len(keys) |->
            <<objs[keys[i]].Name, objs[keys[i]].Type, objs[keys[i]].Location>>]

GetManagedResourcesTable(order) ==
    MarkdownTable(<< <<"Resource Name">>, <<"Resource Type">>, <<"Code Position">> >>,
                  << <<"----">>, <<"--------">>, <<"------">> >>,
                  GetManagedResourcesData(order))

GetDataSourcesData(order) ==
    LET objs == [k \in DOMAIN LastItems(order) |-> ResourceObj(LastItems(order)[k])]
        keys == getSortedKeys(objs)
    IN  [i \in 1..Len(keys) |->
            <<objs[keys[i]].Name, objs[keys[i]].Type, objs[keys[i]].Location>>]

GetDataSourcesTable(order) ==
    MarkdownTable(<< <<"Resource Name">>, <<"Resource Type">>, <<"Code Position">> >>,
                  << <<"----">>, <<"--------">>, <<"------">> >>,
                  GetDataSourcesData(order))

GetModulesData(order) ==
    LET objs == [k \in DOMAIN LastItems(order) |-> ModuleObj(LastItems(order)[k])]
        keys == getSortedKeys(objs)
    IN  [i \in 1..Len(keys) |->
            <<objs[keys[i]].Name, objs[keys[i]].Type, objs[keys[i]].Location>>]

GetModulesTable(order) ==
    MarkdownTable(<< <<"Module Name">>, <<"Module Source">>, <<"Module Location">> >>,
                  << <<"----">>, <<"--------">>, <<"------">> >>,
                  GetModulesData(order))

\* The items a collection may hold.  No two have the same Type and Name
\* (tfconfig keys resources by type and name); two resources of different
\* types may share a name.
ItemSet == {
    [Name |-> <<"a">>, Type |-> <<"aws_instance">>, Description |-> <<"first">>,
     Filename |-> <<"main.tf">>, Line |-> 1],
    [Name |-> <<"a">>, Type |-> <<"aws_s3_bucket">>, Description |-> <<"second">>,
     Filename |-> <<"sub", "/", "s3.tf">>, Line |-> 12],
    [Name |-> <<"a", "b">>, Type |-> <<"aws_instance">>, Description |-> <<>>,
     Filename |-> <<"main.tf">>, Line |-> 7],
    [Name |-> <<"b">>, Type |-> <<"aws_s3_bucket">>, Description |-> <<"line", "\n", "two">>,
     Filename |-> <<".", "/", "sub", "/", "s3.tf">>, Line |-> 3],
    [Name |-> <<"Z">>, Type |-> <<"aws_instance">>, Description |-> <<"last">>,
     Filename |-> <<"main.tf">>, Line |-> 20] }

\* the iteration orders of a collection
OrdersOf(S) ==
    {q \in [1..Cardinality(S) -> S] : \A i, j \in 1..Cardinality(S) : q[i] = q[j] => i = j}

\* Variables, Outputs and ModuleCalls are maps keyed by the item's name
NamesDistinct(S) == \A x, y \in S : x.Name = y.Name => x = y

InitGet ==
    /\ items \in {S \in SUBSET ItemSet : Cardinality(S) <= MaxItems}
    /\ order1 \in OrdersOf(items)
    /\ order2 \in OrdersOf(items)
    /\ getFn = "none"
    /\ data1 = <<>> /\ data2 = <<>> /\ out1 = <<>> /\ out2 = <<>>
    /\ IdleToc /\ IdleTable /\ IdleMain

GetVarsTableCall ==
    /\ getFn = "none" /\ NamesDistinct(items)
    /\ getFn' = "GetVarsTable"
    /\ data1' = GetVarsData(order1) /\ out1' = GetVarsTable(order1)
    /\ data2' = GetVarsData(order2) /\ out2' = GetVarsTable(order2)
    /\ UNCHANGED <<items, order1, order2, tocVars, tableVars, mainVars>>

GetOutputsTableCall ==
    /\ getFn = "none" /\ NamesDistinct(items)
    /\ getFn' = "GetOutputsTable"
    /\ data1' = GetOutputsData(order1) /\ out1' = GetOutputsTable(order1)
    /\ data2' = GetOutputsData(order2) /\ out2' = GetOutputsTable(order2)
    /\ UNCHANGED <<items, order1, order2, tocVars, tableVars, mainVars>>

GetManagedResourcesTableCall ==
    /\ getFn = "none"
    /\ getFn' = "GetManagedResourcesTable"
    /\ data1' = GetManagedResourcesData(order1) /\ out1' = GetManagedResourcesTable(order1)
    /\ data2' = GetManagedResourcesData(order2) /\ out2' = GetManagedResourcesTable(order2)
    /\ UNCHANGED <<items, order1, order2, tocVars, tableVars, mainVars>>

GetDataSourcesTableCall ==
    /\ getFn = "none"
    /\ getFn' = "GetDataSourcesTable"
    /\ data1' = GetDataSourcesData(order1) /\ out1' = GetDataSourcesTable(order1)
    /\ data2' = GetDataSourcesData(order2) /\ out2' = GetDataSourcesTable(order2)
    /\ UNCHANGED <<items, order1, order2, tocVars, tableVars, mainVars>>

GetModulesTableCall ==
    /\ getFn = "none" /\ NamesDistinct(items)
    /\ getFn' = "GetModulesTable"
    /\ data1' = GetModulesData(order1) /\ out1' = GetModulesTable(order1)
    /\ data2' = GetModulesData(order2) /\ out2' = GetModulesTable(order2)
    /\ UNCHANGED <<items, order1, order2, tocVars, tableVars, mainVars>>

NextGet ==
    \/ GetVarsTableCall
    \/ GetOutputsTableCall
    \/ GetManagedResourcesTableCall
    \/ GetDataSourcesTableCall
    \/ GetModulesTableCall

SpecGet == InitGet /\ [][NextGet]_vars

\* C7: the data rows of every Get*Table are in strictly ascending byte-wise
\* lexicographic order of the item name in the first column, and the first
\* column holds the names of the collection.
C7_RowsAscending ==
    getFn # "none" =>
        /\ \A i \in 1..(Len(data1) - 1) : StringLess(data1[i][1], data1[i + 1][1])
        /\ \A i \in 1..(Len(data2) - 1) : StringLess(data2[i][1], data2[i + 1][1])
        /\ {data1[i][1] : i \in 1..Len(data1)} = {x.Name : x \in items}
        /\ {data2[i][1] : i \in 1..Len(data2)} = {x.Name : x \in items}

C7_Witness ==
    /\ getFn = "GetVarsTable"
    /\ Len(order1) = 3
    /\ order1[1].Name = <<"b">> /\ order1[2].Name = <<"Z">> /\ order1[3].Name = <<"a", "b">>
    /\ Len(data1) = 3
    /\ data1[1][1] = <<"Z">> /\ data1[2][1] = <<"a", "b">> /\ data1[3][1] = <<"b">>

\* C8: any two iteration orders of the same collection make a Get*Table
\* function return the identical string, names not assumed distinct.
C8_OrderIndependent ==
    getFn # "none" => out1 = out2

(***************************************************************************)
(* main: ParseCli, tfconfig.LoadModule and the dispatch on the action.     *)
(***************************************************************************)
ValidActions == <<"VarsTable", "OutputsTable", "ManagedResourcesTable",
                  "DataSourcesTable", "RenderTemplate">>

StringInSlice(a, list) == \E i \in 1..Len(list) : list[i] = a

NotImplementedExit == "exit 1: Action not implented yet"

InitMain ==
    /\ pc = "ParseCli"
    /\ opts \in [TfPath : {"", "module"},
                 Action : {"", "ModulesTable", "VarsTable", "OutputsTable",
                           "ManagedResourcesTable", "DataSourcesTable", "RenderTemplate"},
                 TemplatePath : {"", "README.tpl"}]
    /\ env \in [diagsHasErrors : BOOLEAN, parseFilesErr : BOOLEAN,
                readFileErr : BOOLEAN, executeErr : BOOLEAN]
    /\ IdleToc /\ IdleTable /\ IdleGet

ParseCli ==
    /\ pc = "ParseCli"
    /\ pc' = IF opts.TfPath = "" THEN "panic: no TF Path set"
             ELSE IF opts.Action = "" THEN "panic: No Action set"
             ELSE IF ~StringInSlice(opts.Action, ValidActions)
                  THEN "panic: Action is not one of ValidActions"
             ELSE IF opts.Action = "RenderTemplate" /\ opts.TemplatePath = ""
                  THEN "exit 1: no Template path specified"
             ELSE "LoadModule"
    /\ UNCHANGED <<opts, env, tocVars, tableVars, getVars>>

LoadModule ==
    /\ pc = "LoadModule"
    /\ pc' = IF env.diagsHasErrors THEN "panic: Problem Loading Module" ELSE "action"
    /\ UNCHANGED <<opts, env, tocVars, tableVars, getVars>>

PrintVarsTable ==
    /\ pc = "action" /\ opts.Action = "VarsTable"
    /\ pc' = "printed GetVarsTable"
    /\ UNCHANGED <<opts, env, tocVars, tableVars, getVars>>

PrintOutputsTable ==
    /\ pc = "action" /\ opts.Action = "OutputsTable"
    /\ pc' = "printed GetOutputsTable"
    /\ UNCHANGED <<opts, env, tocVars, tableVars, getVars>>

PrintManagedResourcesTable ==
    /\ pc = "action" /\ opts.Action = "ManagedResourcesTable"
    /\ pc' = "printed GetManagedResourcesTable"
    /\ UNCHANGED <<opts, env, tocVars, tableVars, getVars>>

\* template.New(name).Funcs(...).ParseFiles(cliOpts.TemplatePath); CheckErr
RenderTemplateLoad ==
    /\ pc = "action" /\ opts.Action = "RenderTemplate"
    /\ pc' = IF env.parseFilesErr THEN "exit 1: Problem loading template" ELSE "ReadFile"
    /\ UNCHANGED <<opts, env, tocVars, tableVars, getVars>>

\* ioutil.ReadFile(cliOpts.TemplatePath); CheckErr; BuildMarkdownToc(bytes, 3, 0)
RenderTemplateRead ==
    /\ pc = "ReadFile"
    /\ pc' = IF env.readFileErr THEN "exit 1: Failed to read template" ELSE "Execute"
    /\ UNCHANGED <<opts, env, tocVars, tableVars, getVars>>

\* CheckErr(t.Execute(os.Stdout, data), ...)
RenderTemplateExecute ==
    /\ pc = "Execute"
    /\ pc' = IF env.executeErr THEN "exit 1: failed rendering template" ELSE "rendered template"
    /\ UNCHANGED <<opts, env, tocVars, tableVars, getVars>>

\* the final else of main
ActionNotImplemented ==
    /\ pc = "action"
    /\ opts.Action \notin {"VarsTable", "OutputsTable", "ManagedResourcesTable", "RenderTemplate"}
    /\ pc' = NotImplementedExit
    /\ UNCHANGED <<opts, env, tocVars, tableVars, getVars>>

NextMain ==
    \/ ParseCli
    \/ LoadModule
    \/ PrintVarsTable
    \/ PrintOutputsTable
    \/ PrintManagedResourcesTable
    \/ RenderTemplateLoad
    \/ RenderTemplateRead
    \/ RenderTemplateExecute
    \/ ActionNotImplemented

SpecMain == InitMain /\ [][NextMain]_vars

\* C9: every action ParseCli accepts (each member of ValidActions) is
\* performed by main: for a module that loads without errors none of them
\* ends in the "not implemented" error exit.
C9_AcceptedActionsPerformed ==
    (StringInSlice(opts.Action, ValidActions) /\ ~env.diagsHasErrors)
        => pc # NotImplementedExit

=============================================================================
